---- MODULE Spec2Model ----
(***************************************************************************)
(* The video SIP gateway middleware of react/features/videosipgw.          *)
(*                                                                         *)
(* The middleware is one synchronous redux handler.  Every action of this  *)
(* module is one complete run of that handler (or of one of the listeners  *)
(* it registers on a conference), and the variable `last' records what the *)
(* run was given and the sequence of effects it had on its collaborators:  *)
(* calls into the conference, dispatched redux actions and error logs.     *)
(***************************************************************************)
EXTENDS Naturals, Sequences, FiniteSets

VARIABLES
    status,                 \* getState()['features/videosipgw'].status
    joining,                \* getState()['features/base/conference'].joining
    availabilityListeners,  \* per conference: listeners of VIDEO_SIP_GW_AVAILABILITY_CHANGED
    sessionStateListeners,  \* per conference: listeners of VIDEO_SIP_GW_SESSION_STATE_CHANGED
    last                    \* the most recent handler run: its input and its effects

vars == <<status, joining, availabilityListeners, sessionStateListeners, last>>

\* ------------------------------------------------------------------ bounds

\* Longest sequence of rooms one invite command carries.
MaxRooms == 2

\* Most CONFERENCE_WILL_JOIN actions handled in one behaviour.
MaxJoins == 2

\* ------------------------------------------------------- values of the code

\* A destructured field that is absent (or otherwise falsy).
NoValue == "<none>"

STATUS_UNDEFINED == "undefined"
STATUS_BUSY == "busy"
STATUS_AVAILABLE == "available"
\* A status that is none of the three the handler knows.
STATUS_OTHER == "unexpected"

ERROR_NO_CONNECTION == "error_no_connection"
ERROR_SESSION_EXISTS == "error_session_already_exists"
\* An error message that is neither of the two the handler knows.
ERROR_OTHER == "error_other"

STATE_PENDING == "pending"
STATE_FAILED == "failed"
STATE_ON == "on"
STATE_OFF == "off"

CONFERENCE_WILL_JOIN == "CONFERENCE_WILL_JOIN"
SIP_GW_INVITE_ROOMS == "SIP_GW_INVITE_ROOMS"
SIP_GW_AVAILABILITY_CHANGED == "SIP_GW_AVAILABILITY_CHANGED"
VIDEO_SIP_GW_AVAILABILITY_CHANGED == "VIDEO_SIP_GW_AVAILABILITY_CHANGED"
VIDEO_SIP_GW_SESSION_STATE_CHANGED == "VIDEO_SIP_GW_SESSION_STATE_CHANGED"

\* ------------------------------------------------------------ input domains

Conferences == {"conf1", "conf2"}

\* The conference an invite command carries.
InviteConferences == {"conf1"}

StatusValues == {STATUS_UNDEFINED, STATUS_BUSY, STATUS_AVAILABLE, STATUS_OTHER}

ErrorMessages == {ERROR_NO_CONNECTION, ERROR_SESSION_EXISTS, ERROR_OTHER}

SessionStates == {STATE_PENDING, STATE_FAILED, STATE_ON, STATE_OFF}

DisplayNames == {"Alice", "Bob"}

\* Room descriptors {id, name}: two complete ones, one without an id, one
\* without a name.
Rooms ==
    { [id |-> "sip:a", name |-> "Alice"],
      [id |-> "sip:b", name |-> "Bob"],
      [id |-> NoValue, name |-> "Carol"],
      [id |-> "sip:d", name |-> NoValue] }

RECURSIVE SeqsUpTo(_, _)
SeqsUpTo(S, n) ==
    IF n = 0 THEN {<<>>}
    ELSE LET shorter == SeqsUpTo(S, n - 1)
         IN  shorter \cup { Append(s, x) : s \in shorter, x \in S }

RoomLists == SeqsUpTo(Rooms, MaxRooms)

\* ------------------------------------------------- effects of a handler run

\* dispatch(a)
Dispatch(a) == [op |-> "dispatch", action |-> a]

\* logger.error(message, detail)
LogError(message, detail) == [op |-> "logger.error", message |-> message, detail |-> detail]

\* conference.createVideoSIPGWSession(sipAddress, displayName), with what it returned
CreateCall(conference, sipAddress, displayName, result) ==
    [op |-> "createVideoSIPGWSession", conference |-> conference,
     sipAddress |-> sipAddress, displayName |-> displayName, result |-> result]

\* newSession.start()
StartCall(session) == [op |-> "start", session |-> session]

\* ------------------------------------------ the notification action creators
\* The creators live in features/notifications; the middleware only calls
\* them, and the model keeps each call as it is written: the creator, the
\* props object and (for showNotification) the component and the timeout.

showErrorNotification(props) ==
    [creator |-> "showErrorNotification", props |-> props]

showWarningNotification(props) ==
    [creator |-> "showWarningNotification", props |-> props]

showNotification(component, props, timeout) ==
    [creator |-> "showNotification", component |-> component,
     props |-> props, timeout |-> timeout]

\* ------------------------------------------------------- module functions

_availabilityChanged(newStatus) ==
    [type |-> SIP_GW_AVAILABILITY_CHANGED, status |-> newStatus]

\* The null that _sessionStateChanged returns when there is nothing to show.
null == [isNull |-> TRUE]

\* Variant: the PENDING notification is built without its timeout argument.
_sessionStateChangedWithoutTimeout(event) ==
    IF event.newState = STATE_PENDING
    THEN [creator |-> "showNotification", component |-> "Notification",
          props |-> [titleKey |-> "videoSIPGW.pending",
                     titleArguments |-> [displayName |-> event.displayName]]]
    ELSE IF event.newState = STATE_FAILED
    THEN showErrorNotification(
             [titleKey |-> "videoSIPGW.errorInviteFailedTitle",
              titleArguments |-> [displayName |-> event.displayName],
              descriptionKey |-> "videoSIPGW.errorInviteFailed"])
    ELSE null

_sessionStateChanged(event) ==
    IF event.newState = STATE_PENDING
    THEN showNotification(
             "Notification",
             [titleKey |-> "videoSIPGW.pending",
              titleArguments |-> [displayName |-> event.displayName]],
             2000)
    ELSE IF event.newState = STATE_FAILED
    THEN showErrorNotification(
             [titleKey |-> "videoSIPGW.errorInviteFailedTitle",
              titleArguments |-> [displayName |-> event.displayName],
              descriptionKey |-> "videoSIPGW.errorInviteFailed"])
    ELSE null

\* The listener of VIDEO_SIP_GW_SESSION_STATE_CHANGED: what one call of it dispatches.
SessionStateListener(event) ==
    LET toDispatch == _sessionStateChanged(event)
    IN  IF toDispatch # null THEN <<Dispatch(toDispatch)>> ELSE <<>>

\* The listener of VIDEO_SIP_GW_AVAILABILITY_CHANGED: what one call of it dispatches.
AvailabilityListener(newStatus) == <<Dispatch(_availabilityChanged(newStatus))>>

\* ------------------------------------------------ SIP_GW_INVITE_ROOMS handler

\* Variant: the BUSY branch dispatches its warning but does not return.
StatusGateBusyFallsThrough(st) ==
    IF st = STATUS_UNDEFINED
    THEN [returned |-> TRUE,
          effects |-> <<Dispatch(showErrorNotification(
                          [descriptionKey |-> "recording.unavailable",
                           descriptionArguments |->
                               [serviceName |-> "$t(videoSIPGW.serviceName)"],
                           titleKey |-> "videoSIPGW.unavailableTitle"]))>>]
    ELSE IF st = STATUS_BUSY
    THEN [returned |-> FALSE,
          effects |-> <<Dispatch(showWarningNotification(
                          [descriptionKey |-> "videoSIPGW.busy",
                           titleKey |-> "videoSIPGW.busyTitle"]))>>]
    ELSE IF st # STATUS_AVAILABLE
    THEN [returned |-> TRUE,
          effects |-> <<LogError("Unknown sip videogw status", st)>>]
    ELSE [returned |-> FALSE, effects |-> <<>>]

\* Variant: the final test for a status other than AVAILABLE is left out.
StatusGateWithoutUnknownCheck(st) ==
    IF st = STATUS_UNDEFINED
    THEN [returned |-> TRUE,
          effects |-> <<Dispatch(showErrorNotification(
                          [descriptionKey |-> "recording.unavailable",
                           descriptionArguments |->
                               [serviceName |-> "$t(videoSIPGW.serviceName)"],
                           titleKey |-> "videoSIPGW.unavailableTitle"]))>>]
    ELSE IF st = STATUS_BUSY
    THEN [returned |-> TRUE,
          effects |-> <<Dispatch(showWarningNotification(
                          [descriptionKey |-> "videoSIPGW.busy",
                           titleKey |-> "videoSIPGW.busyTitle"]))>>]
    ELSE [returned |-> FALSE, effects |-> <<>>]

\* The chain of tests on the status read from the store: whether the handler
\* returns there, and what it did before returning.
StatusGate(st) ==
    IF st = STATUS_UNDEFINED
    THEN [returned |-> TRUE,
          effects |-> <<Dispatch(showErrorNotification(
                          [descriptionKey |-> "recording.unavailable",
                           descriptionArguments |->
                               [serviceName |-> "$t(videoSIPGW.serviceName)"],
                           titleKey |-> "videoSIPGW.unavailableTitle"]))>>]
    ELSE IF st = STATUS_BUSY
    THEN [returned |-> TRUE,
          effects |-> <<Dispatch(showWarningNotification(
                          [descriptionKey |-> "videoSIPGW.busy",
                           titleKey |-> "videoSIPGW.busyTitle"]))>>]
    ELSE IF st # STATUS_AVAILABLE
    THEN [returned |-> TRUE,
          effects |-> <<LogError("Unknown sip videogw status", st)>>]
    ELSE [returned |-> FALSE, effects |-> <<>>]

\* Variant: only the address is tested.
HasBothChecksAddressOnly(room) == room.id # NoValue

\* if (sipAddress && displayName)
HasBoth(room) == room.id # NoValue /\ room.name # NoValue

\* What conference.createVideoSIPGWSession may return for the i-th room: a new
\* session object, or an Error carrying a message.
CreateResults(i, sipAddress, displayName) ==
    { [kind |-> "session", id |-> i, sipAddress |-> sipAddress,
       displayName |-> displayName] }
    \cup { [kind |-> "Error", message |-> m] : m \in ErrorMessages }

\* newSession instanceof Error
IsError(newSession) == newSession.kind = "Error"

\* Variant: the no-connection case does not return and falls through into the
\* session-exists case.
OnCreateErrorFallsThrough(e, displayName) ==
    IF e.message = ERROR_NO_CONNECTION
    THEN <<Dispatch(showErrorNotification(
               [descriptionKey |-> "videoSIPGW.errorInvite",
                titleKey |-> "videoSIPGW.errorInviteTitle"])),
           Dispatch(showWarningNotification(
               [titleKey |-> "videoSIPGW.errorAlreadyInvited",
                titleArguments |-> [displayName |-> displayName]]))>>
    ELSE IF e.message = ERROR_SESSION_EXISTS
    THEN <<Dispatch(showWarningNotification(
               [titleKey |-> "videoSIPGW.errorAlreadyInvited",
                titleArguments |-> [displayName |-> displayName]]))>>
    ELSE <<LogError("Unknown error trying to create sip videogw session", e)>>

\* Variant: an unknown error is logged and also shown as an error notification.
OnCreateErrorNotifiesUnknown(e, displayName) ==
    IF e.message = ERROR_NO_CONNECTION
    THEN <<Dispatch(showErrorNotification(
               [descriptionKey |-> "videoSIPGW.errorInvite",
                titleKey |-> "videoSIPGW.errorInviteTitle"]))>>
    ELSE IF e.message = ERROR_SESSION_EXISTS
    THEN <<Dispatch(showWarningNotification(
               [titleKey |-> "videoSIPGW.errorAlreadyInvited",
                titleArguments |-> [displayName |-> displayName]]))>>
    ELSE <<Dispatch(showErrorNotification(
               [descriptionKey |-> "videoSIPGW.errorInvite",
                titleKey |-> "videoSIPGW.errorInviteTitle"])),
           LogError("Unknown error trying to create sip videogw session", e)>>

\* The body of `if (newSession instanceof Error)': every path through it returns.
OnCreateError(e, displayName) ==
    IF e.message = ERROR_NO_CONNECTION
    THEN <<Dispatch(showErrorNotification(
               [descriptionKey |-> "videoSIPGW.errorInvite",
                titleKey |-> "videoSIPGW.errorInviteTitle"]))>>
    ELSE IF e.message = ERROR_SESSION_EXISTS
    THEN <<Dispatch(showWarningNotification(
               [titleKey |-> "videoSIPGW.errorAlreadyInvited",
                titleArguments |-> [displayName |-> displayName]]))>>
    ELSE <<LogError("Unknown error trying to create sip videogw session", e)>>

\* Variant: a created session is never started.
IterationWithoutStart(conference, room, i, newSession) ==
    LET sipAddress == room.id
        displayName == room.name
    IN  IF room.id # NoValue /\ room.name # NoValue
        THEN IF newSession.kind = "Error"
             THEN [returned |-> TRUE,
                   effects |-> <<CreateCall(conference, sipAddress, displayName, newSession)>>
                               \o OnCreateError(newSession, displayName)]
             ELSE [returned |-> FALSE,
                   effects |-> <<CreateCall(conference, sipAddress, displayName, newSession)>>]
        ELSE [returned |-> FALSE,
              effects |-> <<LogError("No display name or sip number for", room)>>]

\* Variant: a failed creation is reported but the loop goes on to the next room.
IterationContinuesAfterError(conference, room, i, newSession) ==
    LET sipAddress == room.id
        displayName == room.name
    IN  IF room.id # NoValue /\ room.name # NoValue
        THEN IF newSession.kind = "Error"
             THEN [returned |-> FALSE,
                   effects |-> <<CreateCall(conference, sipAddress, displayName, newSession)>>
                               \o OnCreateError(newSession, displayName)]
             ELSE [returned |-> FALSE,
                   effects |-> <<CreateCall(conference, sipAddress, displayName, newSession),
                                 StartCall(newSession)>>]
        ELSE [returned |-> FALSE,
              effects |-> <<LogError("No display name or sip number for", room)>>]

\* Variant: start is called on whatever the creation returned, before the
\* test for an Error.
IterationStartsBeforeErrorCheck(conference, room, i, newSession) ==
    LET sipAddress == room.id
        displayName == room.name
    IN  IF room.id # NoValue /\ room.name # NoValue
        THEN IF newSession.kind = "Error"
             THEN [returned |-> TRUE,
                   effects |-> <<CreateCall(conference, sipAddress, displayName, newSession),
                                 StartCall(newSession)>>
                               \o OnCreateError(newSession, displayName)]
             ELSE [returned |-> FALSE,
                   effects |-> <<CreateCall(conference, sipAddress, displayName, newSession),
                                 StartCall(newSession)>>]
        ELSE [returned |-> FALSE,
              effects |-> <<LogError("No display name or sip number for", room)>>]

\* One iteration of `for (const room of action.rooms)' for the i-th room,
\* given what createVideoSIPGWSession returns if it is called: the effects of
\* the iteration and whether it returns from the handler.
Iteration(conference, room, i, newSession) ==
    LET sipAddress == room.id
        displayName == room.name
    IN  IF HasBoth(room)
        THEN IF IsError(newSession)
             THEN [returned |-> TRUE,
                   effects |-> <<CreateCall(conference, sipAddress, displayName, newSession)>>
                               \o OnCreateError(newSession, displayName)]
             ELSE [returned |-> FALSE,
                   effects |-> <<CreateCall(conference, sipAddress, displayName, newSession),
                                 StartCall(newSession)>>]
        ELSE [returned |-> FALSE,
              effects |-> <<LogError("No display name or sip number for", room)>>]

\* The runs of the loop over rooms[i..]: one per choice of what the conference
\* returns to each createVideoSIPGWSession call the loop makes.
RECURSIVE RoomLoop(_, _, _)
RoomLoop(conference, rooms, i) ==
    IF i > Len(rooms) THEN {<<>>}
    ELSE LET room == rooms[i]
             results == IF HasBoth(room)
                        THEN CreateResults(i, room.id, room.name)
                        ELSE {NoValue}
         IN  UNION { LET it == Iteration(conference, room, i, r)
                     IN  IF it.returned
                         THEN {it.effects}
                         ELSE { it.effects \o rest : rest \in RoomLoop(conference, rooms, i + 1) }
                     : r \in results }

\* The runs of the whole handler of SIP_GW_INVITE_ROOMS for the status read
\* from the store.
InviteRoomsRuns(st, action) ==
    LET gate == StatusGate(st)
    IN  IF gate.returned
        THEN {gate.effects}
        ELSE { gate.effects \o run : run \in RoomLoop(action.conference, action.rooms, 1) }

\* ------------------------------------------------------------ the reducers
\* The reducers run inside next(action), before the middleware's own switch.

\* features/base/conference: CONFERENCE_WILL_JOIN stores the conference as `joining'.
conferenceReducer(state, action) ==
    IF action.type = CONFERENCE_WILL_JOIN THEN action.conference ELSE state

\* features/videosipgw: SIP_GW_AVAILABILITY_CHANGED stores the status.
videosipgwReducer(state, action) ==
    IF action.type = SIP_GW_AVAILABILITY_CHANGED THEN action.status ELSE state

\* --------------------------------------------------------------- the system

Init ==
    /\ status \in StatusValues
    /\ joining = NoValue
    /\ availabilityListeners = [c \in Conferences |-> 0]
    /\ sessionStateListeners = [c \in Conferences |-> 0]
    /\ last = [kind |-> "none"]

\* CONFERENCE_WILL_JOIN actions handled so far: each registered one listener
\* of each kind.
RECURSIVE Sum(_, _)
Sum(f, S) ==
    IF S = {} THEN 0
    ELSE LET x == CHOOSE y \in S : TRUE IN f[x] + Sum(f, S \ {x})

Joins == Sum(availabilityListeners, Conferences)

\* case CONFERENCE_WILL_JOIN: conference.on(...) twice on the joining conference.
ConferenceWillJoin(conference) ==
    LET action == [type |-> CONFERENCE_WILL_JOIN, conference |-> conference]
        joined == conferenceReducer(joining, action)
    IN  /\ Joins < MaxJoins
        /\ joining' = joined
        /\ availabilityListeners' =
               [availabilityListeners EXCEPT ![joined] = @ + 1]
        /\ sessionStateListeners' =
               [sessionStateListeners EXCEPT ![joined] = @ + 1]
        /\ last' = [kind |-> CONFERENCE_WILL_JOIN, conference |-> conference,
                    effects |-> <<>>]
        /\ UNCHANGED status

\* case SIP_GW_INVITE_ROOMS
InviteRooms(rooms, conference) ==
    LET action == [type |-> SIP_GW_INVITE_ROOMS, rooms |-> rooms,
                   conference |-> conference]
    IN  \E run \in InviteRoomsRuns(status, action) :
            /\ last' = [kind |-> SIP_GW_INVITE_ROOMS, status |-> status,
                        rooms |-> rooms, conference |-> conference,
                        effects |-> run]
            /\ UNCHANGED <<status, joining, availabilityListeners, sessionStateListeners>>

\* Concatenation of n copies of the sequence s.
RECURSIVE Repeat(_, _)
Repeat(s, n) == IF n = 0 THEN <<>> ELSE s \o Repeat(s, n - 1)

\* The store after the dispatches among the effects, each reduced in turn.
RECURSIVE StatusAfter(_, _)
StatusAfter(st, effects) ==
    IF effects = <<>> THEN st
    ELSE StatusAfter(
             IF Head(effects).op = "dispatch" /\ "type" \in DOMAIN Head(effects).action
             THEN videosipgwReducer(st, Head(effects).action)
             ELSE st,
             Tail(effects))

\* The conference emits VIDEO_SIP_GW_AVAILABILITY_CHANGED(newStatus): every
\* listener registered on it runs.
AvailabilityChanged(conference, newStatus) ==
    LET effects == Repeat(AvailabilityListener(newStatus),
                          availabilityListeners[conference])
    IN  /\ status' = StatusAfter(status, effects)
        /\ last' = [kind |-> VIDEO_SIP_GW_AVAILABILITY_CHANGED,
                    conference |-> conference, newStatus |-> newStatus,
                    listeners |-> availabilityListeners[conference],
                    effects |-> effects]
        /\ UNCHANGED <<joining, availabilityListeners, sessionStateListeners>>

\* The conference emits VIDEO_SIP_GW_SESSION_STATE_CHANGED(event): every
\* listener registered on it runs.
SessionStateChanged(conference, event) ==
    LET effects == Repeat(SessionStateListener(event),
                          sessionStateListeners[conference])
    IN  /\ last' = [kind |-> VIDEO_SIP_GW_SESSION_STATE_CHANGED,
                    conference |-> conference, event |-> event,
                    listeners |-> sessionStateListeners[conference],
                    effects |-> effects]
        /\ UNCHANGED <<status, joining, availabilityListeners, sessionStateListeners>>

Next ==
    \/ \E c \in Conferences : ConferenceWillJoin(c)
    \/ \E rooms \in RoomLists, c \in InviteConferences : InviteRooms(rooms, c)
    \/ \E c \in Conferences, s \in StatusValues : AvailabilityChanged(c, s)
    \/ \E c \in Conferences, st \in SessionStates, n \in DisplayNames :
           SessionStateChanged(c, [newState |-> st, displayName |-> n])

Spec == Init /\ [][Next]_vars

\* ------------------------------------------------- reading a run's effects

IsCreate(e) == e.op = "createVideoSIPGWSession"

IsStart(e) == e.op = "start"

IsLog(e) == e.op = "logger.error"

\* A dispatched notification: the value of one of the three creators.
IsNotification(e) == e.op = "dispatch" /\ "creator" \in DOMAIN e.action

IsFailedCreate(e) == IsCreate(e) /\ e.result.kind = "Error"

IsMissingFieldLog(e) == IsLog(e) /\ e.message = "No display name or sip number for"

\* Severity of a notification: the creator that built it.  showNotification
\* with the plain Notification component is the informational one.
IsErrorNotification(a) == a.creator = "showErrorNotification"

IsWarningNotification(a) == a.creator = "showWarningNotification"

IsInfoNotification(a) == a.creator = "showNotification" /\ a.component = "Notification"

\* The title arguments of a notification carry the display name n.
NamesDisplayName(a, n) ==
    /\ "titleArguments" \in DOMAIN a.props
    /\ a.props.titleArguments = [displayName |-> n]

Complete(room) == room.id # NoValue /\ room.name # NoValue

Incomplete(room) == ~Complete(room)

\* f applied to every element of the sequence s.
CallArgsOf(s) == [k \in 1..Len(s) |-> <<s[k].sipAddress, s[k].displayName>>]

RoomArgsOf(s) == [k \in 1..Len(s) |-> <<s[k].id, s[k].name>>]

LogDetailsOf(s) == [k \in 1..Len(s) |-> s[k].detail]

IsPrefix(s, t) == Len(s) <= Len(t) /\ s = SubSeq(t, 1, Len(s))

\* Position in rooms of its m-th complete room (0 when there are fewer).
RECURSIVE NthComplete(_, _, _)
NthComplete(rooms, m, from) ==
    IF from > Len(rooms) \/ m = 0 THEN 0
    ELSE IF Complete(rooms[from])
         THEN IF m = 1 THEN from ELSE NthComplete(rooms, m - 1, from + 1)
         ELSE NthComplete(rooms, m, from + 1)

\* The last run handled an invite command / read this status from the store.
Invited == last.kind = SIP_GW_INVITE_ROOMS

InvitedWith(st) == Invited /\ last.status = st

RecognizedErrors == {ERROR_NO_CONNECTION, ERROR_SESSION_EXISTS}

\* ------------------------------------------------------------------ claims

\* C1: handled with status AVAILABLE, a session creation that returns a
\* recognized error (no-connection, session-exists) makes the command emit
\* exactly one notification, right after the failed call and as its last
\* effect: an error notification for no-connection, a warning whose title
\* arguments carry the room's display name for session-exists.  No session is
\* started for that room and no creation call is issued for a later room: the
\* creation calls are those of the complete rooms up to the failing one.
C1_RecognizedErrorNotifiesOnceAndStops ==
    InvitedWith(STATUS_AVAILABLE) =>
        \A k \in 1..Len(last.effects) :
            LET e == last.effects[k] IN
            (IsFailedCreate(e) /\ e.result.message \in RecognizedErrors) =>
                /\ Len(SelectSeq(last.effects, IsNotification)) = 1
                /\ k + 1 = Len(last.effects)
                /\ IsNotification(last.effects[k + 1])
                /\ e.result.message = ERROR_NO_CONNECTION =>
                       IsErrorNotification(last.effects[k + 1].action)
                /\ e.result.message = ERROR_SESSION_EXISTS =>
                       /\ IsWarningNotification(last.effects[k + 1].action)
                       /\ NamesDisplayName(last.effects[k + 1].action, e.displayName)
                /\ \A j \in 1..Len(last.effects) :
                       IsStart(last.effects[j]) => j < k /\ last.effects[j].session # e.result
                /\ IsPrefix(CallArgsOf(SelectSeq(last.effects, IsCreate)),
                            RoomArgsOf(SelectSeq(last.rooms, Complete)))

\* C1 witness: the first of two complete rooms fails with session-exists.
C1_Witness ==
    /\ InvitedWith(STATUS_AVAILABLE)
    /\ Len(last.rooms) = 2
    /\ Complete(last.rooms[1]) /\ Complete(last.rooms[2])
    /\ Len(last.effects) = 2
    /\ IsFailedCreate(last.effects[1])
    /\ last.effects[1].result.message = ERROR_SESSION_EXISTS
    /\ IsNotification(last.effects[2])

\* C2: handled with status AVAILABLE, a room without an address or without a
\* display name gets no creation call and no notification, only an error log
\* naming the room, and the loop goes on: when no creation failed, every
\* complete room got its creation call and every incomplete room its log;
\* when a creation failed, the logs are those of the incomplete rooms before
\* the failing room.
C2_MissingFieldIsLoggedAndSkipped ==
    InvitedWith(STATUS_AVAILABLE) =>
        LET creates == SelectSeq(last.effects, IsCreate)
            logs == SelectSeq(last.effects, IsMissingFieldLog)
            failed == \E k \in 1..Len(last.effects) : IsFailedCreate(last.effects[k])
            reached == IF failed THEN NthComplete(last.rooms, Len(creates), 1)
                       ELSE Len(last.rooms)
        IN  /\ \A k \in 1..Len(creates) :
                   creates[k].sipAddress # NoValue /\ creates[k].displayName # NoValue
            /\ LogDetailsOf(logs) = SelectSeq(SubSeq(last.rooms, 1, reached), Incomplete)
            /\ ~failed =>
                   /\ CallArgsOf(creates) = RoomArgsOf(SelectSeq(last.rooms, Complete))
                   /\ SelectSeq(last.effects, IsNotification) = <<>>
            /\ failed => reached > 0

\* C2 witness: an incomplete room first, then a complete room that is invited.
C2_Witness ==
    /\ InvitedWith(STATUS_AVAILABLE)
    /\ Len(last.rooms) = 2
    /\ Incomplete(last.rooms[1]) /\ Complete(last.rooms[2])
    /\ Len(last.effects) = 3
    /\ IsMissingFieldLog(last.effects[1])
    /\ IsCreate(last.effects[2])
    /\ IsStart(last.effects[3])

\* C3: handled with status AVAILABLE, when every room is complete and every
\* creation succeeds, the effects are, room by room in the order given, the
\* creation call with that room's address and display name followed by the
\* start of the session it returned, and nothing else: no notification.
C3_AllRoomsCreatedAndStartedInOrder ==
    ( /\ InvitedWith(STATUS_AVAILABLE)
      /\ \A i \in 1..Len(last.rooms) : Complete(last.rooms[i])
      /\ \A k \in 1..Len(last.effects) : ~IsFailedCreate(last.effects[k]) ) =>
        /\ Len(last.effects) = 2 * Len(last.rooms)
        /\ \A i \in 1..Len(last.rooms) :
               /\ IsCreate(last.effects[2 * i - 1])
               /\ last.effects[2 * i - 1].sipAddress = last.rooms[i].id
               /\ last.effects[2 * i - 1].displayName = last.rooms[i].name
               /\ IsStart(last.effects[2 * i])
               /\ last.effects[2 * i].session = last.effects[2 * i - 1].result
        /\ SelectSeq(last.effects, IsNotification) = <<>>

\* C3 witness: two different complete rooms, both created and started.
C3_Witness ==
    /\ InvitedWith(STATUS_AVAILABLE)
    /\ Len(last.rooms) = 2
    /\ Complete(last.rooms[1]) /\ Complete(last.rooms[2])
    /\ last.rooms[1] # last.rooms[2]
    /\ Len(last.effects) = 4
    /\ IsStart(last.effects[4])

\* C4: with status UNDEFINED the command's only effect is one error
\* notification, with status BUSY one warning notification; in both cases no
\* creation call and no start call, whatever the rooms.
C4_UndefinedAndBusyOnlyNotify ==
    /\ InvitedWith(STATUS_UNDEFINED) =>
           /\ Len(last.effects) = 1
           /\ IsNotification(last.effects[1])
           /\ IsErrorNotification(last.effects[1].action)
    /\ InvitedWith(STATUS_BUSY) =>
           /\ Len(last.effects) = 1
           /\ IsNotification(last.effects[1])
           /\ IsWarningNotification(last.effects[1].action)

\* C4 witness: an invite of two complete rooms handled while the gateway is busy.
C4_Witness ==
    /\ InvitedWith(STATUS_BUSY)
    /\ Len(last.rooms) = 2
    /\ Complete(last.rooms[1]) /\ Complete(last.rooms[2])
    /\ Len(last.effects) = 1

\* C5: an availability-changed(newStatus) event emitted by a conference that
\* has become active produces exactly one state-update action, and that action
\* carries newStatus as given, for every newStatus.
C5_AvailabilityChangedDispatchesOnce ==
    ( /\ last.kind = VIDEO_SIP_GW_AVAILABILITY_CHANGED
      /\ availabilityListeners[last.conference] >= 1 ) =>
        last.effects =
            <<Dispatch([type |-> SIP_GW_AVAILABILITY_CHANGED, status |-> last.newStatus])>>

\* C6: on a conference the handler registered listeners on, a
\* session-state-changed event makes each registered listener dispatch one
\* action when newState is PENDING (an info notification whose title arguments
\* carry the event's display name, with dismiss timer 2000) or FAILED (an error
\* notification whose title arguments carry the event's display name), and
\* nothing at all for any other newState.
C6_SessionStateChangedNotification ==
    ( /\ last.kind = VIDEO_SIP_GW_SESSION_STATE_CHANGED
      /\ last.listeners >= 1 ) =>
        /\ last.event.newState = STATE_PENDING =>
               /\ Len(last.effects) = last.listeners
               /\ \A k \in 1..Len(last.effects) :
                      /\ IsNotification(last.effects[k])
                      /\ IsInfoNotification(last.effects[k].action)
                      /\ NamesDisplayName(last.effects[k].action, last.event.displayName)
                      /\ "timeout" \in DOMAIN last.effects[k].action
                      /\ last.effects[k].action.timeout = 2000
        /\ last.event.newState = STATE_FAILED =>
               /\ Len(last.effects) = last.listeners
               /\ \A k \in 1..Len(last.effects) :
                      /\ IsNotification(last.effects[k])
                      /\ IsErrorNotification(last.effects[k].action)
                      /\ NamesDisplayName(last.effects[k].action, last.event.displayName)
        /\ last.event.newState \notin {STATE_PENDING, STATE_FAILED} =>
               last.effects = <<>>

\* C6 witness: a joined conference reports a session of Bob as pending.
C6_Witness ==
    /\ last.kind = VIDEO_SIP_GW_SESSION_STATE_CHANGED
    /\ last.listeners = 1
    /\ last.event = [newState |-> STATE_PENDING, displayName |-> "Bob"]
    /\ Len(last.effects) = 1

\* C7: handled with status AVAILABLE, a session creation that fails with an
\* error that is neither no-connection nor session-exists is logged right
\* after the failed call, and the log is the command's last effect: no
\* notification is emitted, no session is started for that room, and no later
\* room gets a creation call.
C7_UnknownErrorIsLoggedSilentlyAndStops ==
    InvitedWith(STATUS_AVAILABLE) =>
        \A k \in 1..Len(last.effects) :
            LET e == last.effects[k] IN
            (IsFailedCreate(e) /\ e.result.message \notin RecognizedErrors) =>
                /\ k + 1 = Len(last.effects)
                /\ IsLog(last.effects[k + 1])
                /\ last.effects[k + 1].detail = e.result
                /\ SelectSeq(last.effects, IsNotification) = <<>>
                /\ \A j \in 1..Len(last.effects) :
                       IsStart(last.effects[j]) => j < k /\ last.effects[j].session # e.result
                /\ IsPrefix(CallArgsOf(SelectSeq(last.effects, IsCreate)),
                            RoomArgsOf(SelectSeq(last.rooms, Complete)))

\* C7 witness: the first of two complete rooms fails with an unknown error.
C7_Witness ==
    /\ InvitedWith(STATUS_AVAILABLE)
    /\ Len(last.rooms) = 2
    /\ Complete(last.rooms[1]) /\ Complete(last.rooms[2])
    /\ Len(last.effects) = 2
    /\ IsFailedCreate(last.effects[1])
    /\ last.effects[1].result.message = ERROR_OTHER
    /\ IsLog(last.effects[2])

\* C8: when the status read from the store is none of UNDEFINED, BUSY,
\* AVAILABLE, the command's only effect is one error log naming the status:
\* no notification, no creation call, no start call, whatever the rooms.
C8_UnknownStatusOnlyLogs ==
    ( /\ Invited
      /\ last.status \notin {STATUS_UNDEFINED, STATUS_BUSY, STATUS_AVAILABLE} ) =>
        /\ Len(last.effects) = 1
        /\ IsLog(last.effects[1])
        /\ last.effects[1].detail = last.status

\* C8 witness: an invite of two complete rooms handled with an unknown status.
C8_Witness ==
    /\ InvitedWith(STATUS_OTHER)
    /\ Len(last.rooms) = 2
    /\ Complete(last.rooms[1]) /\ Complete(last.rooms[2])
    /\ Len(last.effects) = 1

\* C9: every invite command, whatever the status, the rooms and the outcomes
\* of the creations, emits at most one notification, and a notification is the
\* command's last effect: no creation or start call follows it.
C9_AtMostOneNotificationAndItIsLast ==
    Invited =>
        /\ Len(SelectSeq(last.effects, IsNotification)) <= 1
        /\ \A k \in 1..Len(last.effects) :
               IsNotification(last.effects[k]) => k = Len(last.effects)

\* C9 witness: a session was created and started, then the next creation
\* failed with no-connection and was notified.
C9_Witness ==
    /\ InvitedWith(STATUS_AVAILABLE)
    /\ Len(last.rooms) = 2
    /\ Len(last.effects) = 4
    /\ IsStart(last.effects[2])
    /\ IsFailedCreate(last.effects[3])
    /\ last.effects[3].result.message = ERROR_NO_CONNECTION
    /\ IsNotification(last.effects[4])

\* C10: within an invite command every successful creation call is followed
\* at once by the start of the session it returned, every start call is such
\* a start, and so the start calls number the successful creation calls;
\* a later failure leaves the earlier sessions started.
C10_StartFollowsEachSuccessfulCreate ==
    Invited =>
        /\ \A k \in 1..Len(last.effects) :
               (IsCreate(last.effects[k]) /\ ~IsFailedCreate(last.effects[k])) =>
                   /\ k < Len(last.effects)
                   /\ last.effects[k + 1] = StartCall(last.effects[k].result)
        /\ \A k \in 1..Len(last.effects) :
               IsStart(last.effects[k]) =>
                   /\ k > 1
                   /\ IsCreate(last.effects[k - 1])
                   /\ ~IsFailedCreate(last.effects[k - 1])
                   /\ last.effects[k].session = last.effects[k - 1].result
        /\ Len(SelectSeq(last.effects, IsStart)) =
               Len(SelectSeq(last.effects, IsCreate))
               - Len(SelectSeq(last.effects, IsFailedCreate))

\* C10 witness: the first room's session is created and started, the second
\* room's creation fails.
C10_Witness ==
    /\ InvitedWith(STATUS_AVAILABLE)
    /\ Len(last.rooms) = 2
    /\ Len(last.effects) = 4
    /\ IsCreate(last.effects[1]) /\ IsStart(last.effects[2])
    /\ IsFailedCreate(last.effects[3])

====
